---- MODULE Spec2Model ----
(***************************************************************************)
(* Model of src/error.rs of the getrandom crate: the Error type (a non-    *)
(* zero 32-bit code), its two library constants, message resolution,       *)
(* Debug/Display formatting and the conversions from and to io::Error.     *)
(*                                                                         *)
(* TLC's integers are 32-bit signed, so an i32 is a TLA+ integer and a u32 *)
(* is the pair <<hi, lo>> of its upper and lower 16 bits (each 0..65535).  *)
(* An Option<T> is a sequence of length 0 (None) or 1 (Some).              *)
(***************************************************************************)
EXTENDS Integers, Sequences, FiniteSets, TLC

VARIABLES
    lookup,  \* the platform's message table behind super::error_msg_inner
    err,     \* Option<Error>: the Error value the caller holds
    src,     \* how the held Error was constructed, and from what input
    last     \* the last operation applied and what it returned

vars == <<lookup, err, src, last>>

----------------------------------------------------------------------------
(* Bounds of the model *)

\* Sampled numeric codes lie within MaxOffset of each interesting base value.
MaxOffset == 1

----------------------------------------------------------------------------
(* Option and 32-bit helpers *)

None == <<>>

Some(x) == <<x>>

Half == 65536

U16 == 0 .. (Half - 1)

AsU32Truncating(n) == <<0, n % Half>>

\* `code as u32` for an i32: two's-complement reinterpretation.
AsU32(n) == <<(n \div Half) % Half, n % Half>>

AsI32Saturating(u) == IF u[1] >= 32768 THEN 2147483647 ELSE u[1] * Half + u[2]

\* `x as i32` for a u32: two's-complement reinterpretation.
AsI32(u) == IF u[1] >= 32768 THEN (u[1] - Half) * Half + u[2]
            ELSE u[1] * Half + u[2]

RECURSIVE BitOr16(_, _)
BitOr16(a, b) == IF a = 0 THEN b
                 ELSE IF b = 0 THEN a
                 ELSE (IF a % 2 = 1 \/ b % 2 = 1 THEN 1 ELSE 0)
                      + 2 * BitOr16(a \div 2, b \div 2)

\* `a | b` on u32 values.
BitOr(a, b) == <<BitOr16(a[1], b[1]), BitOr16(a[2], b[2])>>

NonZeroU32_new_nocheck(u) == Some(u)

\* NonZeroU32::new: None for zero.
NonZeroU32_new(u) == IF u = <<0, 0>> THEN None ELSE Some(u)

----------------------------------------------------------------------------
(* Constants of the library *)

CODE_PREFIX == <<22516, 0>>    \* 0x57f40000

CODE_UNKNOWN == BitOr(CODE_PREFIX, <<0, 0>>)

CODE_UNAVAILABLE_dup == BitOr(CODE_PREFIX, <<0, 0>>)

CODE_UNAVAILABLE == BitOr(CODE_PREFIX, <<0, 1>>)

ERROR_UNKNOWN == CODE_UNKNOWN

ERROR_UNAVAILABLE == CODE_UNAVAILABLE

\* #[derive(Eq, PartialEq)] on the one-field struct: equality of the payloads.
ErrorEq(a, b) == a[1] = b[1] /\ a[2] = b[2]

----------------------------------------------------------------------------
(* Inputs *)

SampleOffsets == (0 - MaxOffset) .. MaxOffset

\* 0, 0x10000, 0x12345678, 0x57f40000 and their neighbours; i32::MAX and
\* i32::MIN and their neighbours inside the i32 range.
I32Samples ==
    {b + k : b \in {0, 65536, 305419896, 1475608576}, k \in SampleOffsets}
    \cup {2147483647 - k : k \in 0 .. MaxOffset}
    \cup {(0 - 2147483647) - 1 + k : k \in 0 .. MaxOffset}

NonZeroU32Samples == {<<(n \div Half) % Half, n % Half>> : n \in I32Samples}
                     \ {<<0, 0>>}

\* io::Error: Repr::Os(code), Repr::Simple(kind) or Repr::Custom(kind, error).
IoOs(n) == [repr |-> "Os", code |-> n, kind |-> "Decoded", text |-> ""]

IoSimple(k) == [repr |-> "Simple", code |-> 0, kind |-> k, text |-> ""]

IoCustom(k, t) == [repr |-> "Custom", code |-> 0, kind |-> k, text |-> t]

IoSamples == {IoOs(n) : n \in I32Samples}
             \cup {IoSimple("UnexpectedEof"), IoSimple("Other"),
                   IoCustom("Other", "entropy source closed")}

\* Codes the platform's table may know, and the texts it may give.
PlatformCodes == {<<22516, 0>>, <<22516, 1>>, <<0, 1>>, <<65535, 65535>>}

PlatformMsgs == {"getrandom: platform text", "platform text"}

PlatformTables == [PlatformCodes -> {None} \cup {Some(m) : m \in PlatformMsgs}]

----------------------------------------------------------------------------
(* io::Error *)

raw_os_error(e) == IF e.repr = "Os" THEN Some(e.code) ELSE None

from_raw_os_error(n) == IoOs(n)

io_Error_new(k, t) == IoCustom(k, t)

\* Display of a Custom io::Error is the Display of the error it wraps.
io_Display(e) == IF e.repr = "Custom" THEN e.text
                 ELSE IF e.repr = "Simple" THEN e.kind
                 ELSE "os error"

----------------------------------------------------------------------------
(* Error *)

code(e) == e

\* super::error_msg_inner: the platform's lookup, a pure function of the code.
error_msg_inner(c) == IF c \in DOMAIN lookup THEN lookup[c] ELSE None

msg_builtin_only(e) ==
    IF ErrorEq(e, ERROR_UNKNOWN) THEN Some("getrandom: unknown error")
    ELSE IF ErrorEq(e, ERROR_UNAVAILABLE) THEN Some("getrandom: unavailable")
    ELSE None

msg_swapped_texts(e) ==
    IF error_msg_inner(e) # None THEN error_msg_inner(e)
    ELSE IF ErrorEq(e, ERROR_UNKNOWN) THEN Some("getrandom: unavailable")
    ELSE IF ErrorEq(e, ERROR_UNAVAILABLE) THEN Some("getrandom: unknown error")
    ELSE None

msg(e) ==
    IF error_msg_inner(e) # None THEN error_msg_inner(e)
    ELSE IF ErrorEq(e, ERROR_UNKNOWN) THEN Some("getrandom: unknown error")
    ELSE IF ErrorEq(e, ERROR_UNAVAILABLE) THEN Some("getrandom: unavailable")
    ELSE None

----------------------------------------------------------------------------
(* core::fmt: `{:08X}` of a u32 *)

UpperHexChars == <<"0", "1", "2", "3", "4", "5", "6", "7",
                   "8", "9", "A", "B", "C", "D", "E", "F">>

LowerHexChars == <<"0", "1", "2", "3", "4", "5", "6", "7",
                   "8", "9", "a", "b", "c", "d", "e", "f">>

\* `n >> 4` on a u32.
Shr4(u) == <<u[1] \div 16, (u[1] % 16) * 4096 + u[2] \div 16>>

RECURSIVE UpperHexLower(_)
UpperHexLower(u) ==
    IF Shr4(u) = <<0, 0>> THEN LowerHexChars[(u[2] % 16) + 1]
    ELSE UpperHexLower(Shr4(u)) \o LowerHexChars[(u[2] % 16) + 1]

\* The digit loop of fmt::UpperHex: the low nibble first, until n is zero.
RECURSIVE UpperHex(_)
UpperHex(u) ==
    IF Shr4(u) = <<0, 0>> THEN UpperHexChars[(u[2] % 16) + 1]
    ELSE UpperHex(Shr4(u)) \o UpperHexChars[(u[2] % 16) + 1]

\* Formatter::pad_integral with the `0` flag: zeros on the left up to width.
RECURSIVE PadZero(_, _)
PadZero(s, width) == IF Len(s) >= width THEN s ELSE PadZero("0" \o s, width)

HexWidth == 8

Fmt08X(u) == PadZero(UpperHex(u), HexWidth)

Debug_fmt(e) ==
    IF msg(e) # None THEN "Error(\"" \o msg(e)[1] \o "\")"
    ELSE "Error(0x" \o Fmt08X(e) \o ")"

Display_fmt_prefixed(e) ==
    IF msg(e) # None THEN "getrandom: " \o msg(e)[1]
    ELSE "getrandom: unknown code 0x" \o Fmt08X(e)

Display_fmt(e) ==
    IF msg(e) # None THEN msg(e)[1]
    ELSE "getrandom: unknown code 0x" \o Fmt08X(e)

----------------------------------------------------------------------------
(* Conversions *)

From_NonZeroU32_low(c) == <<0, c[2]>>

From_NonZeroU32(c) == c

\* raw_os_error().and_then(NonZeroU32::new(code as u32)).map(Error)
\*     .unwrap_or(ERROR_UNKNOWN)
From_io_Error(e) ==
    IF raw_os_error(e) = None THEN ERROR_UNKNOWN
    ELSE IF NonZeroU32_new(AsU32(raw_os_error(e)[1])) = None THEN ERROR_UNKNOWN
    ELSE NonZeroU32_new(AsU32(raw_os_error(e)[1]))[1]

Into_io_Error(e) ==
    IF msg(e) # None THEN io_Error_new("Other", msg(e)[1])
    ELSE from_raw_os_error(AsI32(e))

----------------------------------------------------------------------------
(* The state machine: a caller constructing, copying and consuming Errors *)

NoSrc == [from |-> "none", code |-> None, io |-> None]

Idle(op) == [op |-> op, msg |-> None, text |-> "", num |-> None, io |-> None]

Init ==
    /\ lookup \in PlatformTables
    /\ err = None
    /\ src = NoSrc
    /\ last = Idle("init")

\* let e = ERROR_UNKNOWN;
UseUnknown ==
    /\ err' = Some(ERROR_UNKNOWN)
    /\ src' = [NoSrc EXCEPT !.from = "ERROR_UNKNOWN"]
    /\ last' = Idle("construct")
    /\ UNCHANGED lookup

\* let e = ERROR_UNAVAILABLE;
UseUnavailable ==
    /\ err' = Some(ERROR_UNAVAILABLE)
    /\ src' = [NoSrc EXCEPT !.from = "ERROR_UNAVAILABLE"]
    /\ last' = Idle("construct")
    /\ UNCHANGED lookup

\* let e = Error::from(c);
FromNonZeroU32 ==
    \E c \in NonZeroU32Samples :
        /\ err' = Some(From_NonZeroU32(c))
        /\ src' = [NoSrc EXCEPT !.from = "NonZeroU32", !.code = Some(c)]
        /\ last' = Idle("construct")
        /\ UNCHANGED lookup

\* let e = Error::from(io_err);
FromIoError ==
    \E e \in IoSamples :
        /\ err' = Some(From_io_Error(e))
        /\ src' = [NoSrc EXCEPT !.from = "io::Error", !.io = Some(e)]
        /\ last' = Idle("construct")
        /\ UNCHANGED lookup

\* e.code()
CallCode ==
    /\ err # None
    /\ last' = [Idle("code") EXCEPT !.num = Some(code(err[1]))]
    /\ UNCHANGED <<lookup, err, src>>

\* let copy = e;  (#[derive(Copy, Clone)])
CopyError ==
    /\ err # None
    /\ last' = [Idle("copy") EXCEPT !.num = Some(err[1])]
    /\ UNCHANGED <<lookup, err, src>>

\* format!("{}", e)
FmtDisplay ==
    /\ err # None
    /\ last' = [Idle("display") EXCEPT !.msg = msg(err[1]),
                                       !.text = Display_fmt(err[1])]
    /\ UNCHANGED <<lookup, err, src>>

\* format!("{:?}", e)
FmtDebug ==
    /\ err # None
    /\ last' = [Idle("debug") EXCEPT !.msg = msg(err[1]),
                                     !.text = Debug_fmt(err[1])]
    /\ UNCHANGED <<lookup, err, src>>

\* io::Error::from(e)
IntoIoError ==
    /\ err # None
    /\ last' = [Idle("into_io") EXCEPT !.msg = msg(err[1]),
                                       !.io = Some(Into_io_Error(err[1]))]
    /\ UNCHANGED <<lookup, err, src>>

Next ==
    \/ UseUnknown
    \/ UseUnavailable
    \/ FromNonZeroU32
    \/ FromIoError
    \/ CallCode
    \/ CopyError
    \/ FmtDisplay
    \/ FmtDebug
    \/ IntoIoError

Spec == Init /\ [][Next]_vars

----------------------------------------------------------------------------
(* Properties *)

IoRoundTrip == last.op = "into_io" /\ src.from = "io::Error"

\* C1: an io::Error carrying the code n, converted to Error and back, is
\* the OS error with raw code n when the Error resolves to no message, and
\* otherwise a Custom io::Error of kind Other that displays that message.
C1_RoundTrip ==
    (IoRoundTrip /\ src.io[1].repr = "Os") =>
        IF last.msg = None
        THEN /\ last.io[1].repr = "Os"
             /\ raw_os_error(last.io[1]) = Some(src.io[1].code)
        ELSE /\ last.io[1].repr = "Custom"
             /\ last.io[1].kind = "Other"
             /\ raw_os_error(last.io[1]) = None
             /\ io_Display(last.io[1]) = last.msg[1]

C1_Witness ==
    /\ IoRoundTrip
    /\ src.io[1].repr = "Os"
    /\ src.io[1].code < 0
    /\ last.msg = None

\* C2: From<io::Error> always yields an Error; for a raw code n # 0 its code
\* is n read as an unsigned 32-bit value, and with no raw code or the raw
\* code 0 it is ERROR_UNKNOWN.
C2_FromIoError ==
    (src.from = "io::Error") =>
        /\ err # None
        /\ IF src.io[1].repr = "Os" /\ src.io[1].code # 0
           THEN LET c == code(err[1])
                    n == src.io[1].code
                IN  /\ c[1] \in U16
                    /\ c[2] \in U16
                    /\ IF n > 0
                       THEN c[1] < 32768 /\ c[1] * 65536 + c[2] = n
                       ELSE c[1] >= 32768 /\ (c[1] - 65536) * 65536 + c[2] = n
           ELSE ErrorEq(err[1], ERROR_UNKNOWN)

C2_Witness ==
    /\ src.from = "io::Error"
    /\ src.io[1].repr = "Os"
    /\ src.io[1].code < 0
    /\ last.op = "code"
    /\ last.num[1][1] >= 32768

\* C3: every Error value, the held one and every copy of it, has a code in
\* 1 .. 2^32 - 1, whichever way it was constructed.
C3_NonZero ==
    /\ err # None =>
        /\ code(err[1])[1] \in U16
        /\ code(err[1])[2] \in U16
        /\ code(err[1]) # <<0, 0>>
    /\ last.op \in {"copy", "code"} =>
        /\ last.num[1][1] \in U16
        /\ last.num[1][2] \in U16
        /\ last.num[1] # <<0, 0>>

C3_Witness ==
    /\ last.op = "copy"
    /\ src.from = "io::Error"
    /\ src.io[1] = IoOs(0)

\* C4: code() of the Error constructed from the non-zero value c is c.
C4_CodeRoundTrip ==
    (last.op = "code" /\ src.from = "NonZeroU32") => last.num = src.code

C4_Witness ==
    /\ last.op = "code"
    /\ src.from = "NonZeroU32"
    /\ src.code[1][1] > 0
    /\ src.code[1][2] > 0

Displayed(e) == last.op = "display" /\ err = Some(e)

\* C5 as stated: Display of ERROR_UNKNOWN is "getrandom: unknown error" and
\* Display of ERROR_UNAVAILABLE is "getrandom: unavailable", whatever the
\* platform lookup returns for the two codes.
C5_Original ==
    /\ Displayed(ERROR_UNKNOWN) => last.text = "getrandom: unknown error"
    /\ Displayed(ERROR_UNAVAILABLE) => last.text = "getrandom: unavailable"

\* C5 as amended: Display of each of the two constants is its built-in text
\* when the platform lookup has no message for its code, and is the
\* platform's message when it has one.
C5_DisplayConstants ==
    /\ Displayed(ERROR_UNKNOWN) =>
        last.text = IF lookup[<<22516, 0>>] = None
                    THEN "getrandom: unknown error"
                    ELSE lookup[<<22516, 0>>][1]
    /\ Displayed(ERROR_UNAVAILABLE) =>
        last.text = IF lookup[<<22516, 1>>] = None
                    THEN "getrandom: unavailable"
                    ELSE lookup[<<22516, 1>>][1]

C5_Witness ==
    /\ Displayed(ERROR_UNAVAILABLE)
    /\ lookup[<<22516, 1>>] = None
    /\ lookup[<<22516, 0>>] # None

HexDigits == "0123456789ABCDEF"

HexDigitValue(ch) == CHOOSE d \in 0 .. 15 : SubSeq(HexDigits, d + 1, d + 1) = ch

IsHexDigit(ch) == \E d \in 0 .. 15 : SubSeq(HexDigits, d + 1, d + 1) = ch

Hex4Value(s) ==
    HexDigitValue(SubSeq(s, 1, 1)) * 4096 + HexDigitValue(SubSeq(s, 2, 2)) * 256
    + HexDigitValue(SubSeq(s, 3, 3)) * 16 + HexDigitValue(SubSeq(s, 4, 4))

\* s is exactly the 8 uppercase hexadecimal digits of the 32-bit value u.
IsHex8Of(s, u) ==
    /\ Len(s) = 8
    /\ \A i \in 1 .. 8 : IsHexDigit(SubSeq(s, i, i))
    /\ Hex4Value(SubSeq(s, 1, 4)) = u[1]
    /\ Hex4Value(SubSeq(s, 5, 8)) = u[2]

\* C6: with no message resolved, Display is "getrandom: unknown code 0x" and
\* Debug is "Error(0x" ... ")" around the code as exactly 8 uppercase
\* hexadecimal digits, zero-padded on the left.
C6_HexFormat ==
    /\ (last.op = "display" /\ last.msg = None) =>
        /\ Len(last.text) = 34
        /\ SubSeq(last.text, 1, 26) = "getrandom: unknown code 0x"
        /\ IsHex8Of(SubSeq(last.text, 27, 34), err[1])
    /\ (last.op = "debug" /\ last.msg = None) =>
        /\ Len(last.text) = 17
        /\ SubSeq(last.text, 1, 8) = "Error(0x"
        /\ IsHex8Of(SubSeq(last.text, 9, 16), err[1])
        /\ SubSeq(last.text, 17, 17) = ")"
    /\ (last.op = "display" /\ last.msg = None /\ err = Some(<<4660, 22136>>)) =>
        last.text = "getrandom: unknown code 0x12345678"
    /\ (last.op = "debug" /\ last.msg = None /\ err = Some(<<4660, 22136>>)) =>
        last.text = "Error(0x12345678)"

C6_Witness ==
    /\ last.op = "debug"
    /\ last.msg = None
    /\ err = Some(<<0, 65535>>)
    /\ last.text = "Error(0x0000FFFF)"

HasPrefix(s, p) == Len(s) >= Len(p) /\ SubSeq(s, 1, Len(p)) = p

\* C7 as stated: whenever a message is resolved, from the platform lookup or
\* from the built-in table, the Display output begins with "getrandom: ".
C7_Original ==
    (last.op = "display" /\ last.msg # None) =>
        HasPrefix(last.text, "getrandom: ")

\* C7 as amended: whenever a message is resolved, the Display output is that
\* message unchanged; it begins with "getrandom: " when the message comes
\* from the built-in table, and for a platform message exactly when the
\* platform's text itself begins with it.
C7_DisplayMessage ==
    (last.op = "display" /\ last.msg # None) =>
        /\ last.text = last.msg[1]
        /\ error_msg_inner(err[1]) = None => HasPrefix(last.text, "getrandom: ")
        /\ error_msg_inner(err[1]) # None =>
            (HasPrefix(last.text, "getrandom: ")
                <=> HasPrefix(error_msg_inner(err[1])[1], "getrandom: "))

C7_Witness ==
    /\ last.op = "display"
    /\ last.msg = Some("platform text")
    /\ last.text = "platform text"

\* C8: ERROR_UNKNOWN.code() is 0x57F40000, ERROR_UNAVAILABLE.code() is
\* 0x57F40001, the two constants are not equal, and bits 16-31 of both
\* codes are 0x57F4.
C8_Constants ==
    /\ (last.op = "code" /\ src.from = "ERROR_UNKNOWN") =>
        last.num = Some(<<22516, 0>>)
    /\ (last.op = "code" /\ src.from = "ERROR_UNAVAILABLE") =>
        last.num = Some(<<22516, 1>>)
    /\ (last.op = "code" /\ src.from \in {"ERROR_UNKNOWN", "ERROR_UNAVAILABLE"}) =>
        last.num[1][1] = 22516
    /\ ~ErrorEq(ERROR_UNKNOWN, ERROR_UNAVAILABLE)

C8_Witness == last.op = "code" /\ src.from = "ERROR_UNAVAILABLE"

\* Message resolution with the two steps in the other order: the built-in
\* table first, the platform lookup second.
BuiltinFirst(e) ==
    IF e = <<22516, 0>> THEN Some("getrandom: unknown error")
    ELSE IF e = <<22516, 1>> THEN Some("getrandom: unavailable")
    ELSE error_msg_inner(e)

Resolved == last.op \in {"display", "debug", "into_io"}

\* C10 as stated: for every code, resolving with the platform lookup first
\* gives the same result as resolving with the built-in table first.
C10_Original == Resolved => last.msg = BuiltinFirst(err[1])

\* C10 as amended: the two orders give the same result for every code
\* except a library constant for which the platform lookup has a message;
\* there the platform's message wins in the code's order and the built-in
\* text in the other.
C10_OrderIrrelevant ==
    Resolved =>
        IF err[1] \in {<<22516, 0>>, <<22516, 1>>} /\ error_msg_inner(err[1]) # None
        THEN /\ last.msg = error_msg_inner(err[1])
             /\ BuiltinFirst(err[1]) # error_msg_inner(err[1])
        ELSE last.msg = BuiltinFirst(err[1])

C10_Witness ==
    /\ Resolved
    /\ err = Some(<<0, 1>>)
    /\ last.msg # None
    /\ lookup[<<22516, 0>>] = None
    /\ lookup[<<22516, 1>>] = None

====
